---- MODULE Spec2Model ----
(***************************************************************************)
(* torch/fx/proxy.py: the symbolic-tracing proxy protocol.                 *)
(*                                                                         *)
(* A tracer owns a graph (an append-only sequence of nodes).  Proxy and    *)
(* Attribute objects stand in for values; every operation on them lowers   *)
(* its arguments with create_arg and appends a node through create_proxy.  *)
(* _create_friendly_names renames the nodes of operands after the local    *)
(* bindings of the calling frame.                                          *)
(*                                                                         *)
(* Values (arguments before and after lowering) are records                *)
(*   [k, n, str, s, keys]                                                  *)
(* k is the Python type of the value, n an integer payload (node index,    *)
(* Attribute object identity, int value), str a string payload, s the      *)
(* children (sequence elements, dict values in insertion order, the three  *)
(* slice fields) and keys the dict keys in insertion order.                *)
(***************************************************************************)
EXTENDS Naturals, Sequences, FiniteSets, TLC

VARIABLES graph, used_names, attrs, structure, last

vars == <<graph, used_names, attrs, structure, last>>

(* ------------------------------ bounds -------------------------------- *)

(* nodes of the graph and Attribute objects, per specification *)
MaxNodes == 3

MaxAttrs == 2

MaxControlNodes == 2

MaxControlAttrs == 1

MaxOperatorNodes == 3

MaxOperatorAttrs == 1

MaxAliasNodes == 2

MaxAliasAttrs == 1

MaxNameNodes == 4

MaxNameAttrs == 2

MaxLowerNodes == 2

MaxLowerAttrs == 1

(* the numeric suffix of a node name *)
MaxSuffix == 2

(* the argval of an UNPACK_SEQUENCE instruction *)
MaxUnpack == 1

(* ------------------------------ values -------------------------------- *)

Val(k, n, str, s, keys) == [k |-> k, n |-> n, str |-> str, s |-> s, keys |-> keys]

TupleV(s) == Val("tuple", 0, "", s, <<>>)

ListV(s) == Val("list", 0, "", s, <<>>)

DictV(keys, s) == Val("dict", 0, "", s, keys)

SliceV(start, stop, step) == Val("slice", 0, "", <<start, stop, step>>, <<>>)

ProxyV(i) == Val("Proxy", i, "", <<>>, <<>>)

AttributeV(j) == Val("Attribute", j, "", <<>>, <<>>)

NodeV(i) == Val("Node", i, "", <<>>, <<>>)

IntV(i) == Val("int", i, "", <<>>, <<>>)

StrV(str) == Val("str", 0, str, <<>>, <<>>)

NoneV == Val("None", 0, "", <<>>, <<>>)

ObjectV == Val("object", 0, "", <<>>, <<>>)

StrKey(str) == [type |-> "str", str |-> str]

IntKey(str) == [type |-> "int", str |-> str]

EmptyDict == DictV(<<>>, <<>>)

base_types == {"str", "int", "float", "bool", "dtype", "Tensor"}

isProxy(a) == a.k \in {"Proxy", "Attribute"}

(* ------------------------------ names --------------------------------- *)

Name(base, n) == [base |-> base, n |-> n]

NoName == Name("", 0)

(* Graph._create_unique_name: the candidate if it is free, else the        *)
(* candidate with the first free numeric suffix.                           *)
RECURSIVE FirstFree(_, _, _)
FirstFree(used, base, n) ==
    IF Name(base, n) \in used THEN FirstFree(used, base, n + 1) ELSE Name(base, n)

_create_unique_name(used, candidate) == FirstFree(used, candidate, 0)

(* Graph._target_to_str: the display string that seeds a default name.     *)
_target_to_str(target) == target

(* ------------------------------ results ------------------------------- *)

State(g, u, a) == [graph |-> g, used_names |-> u, attrs |-> a]

Ok(st, ret) == [st |-> st, err |-> "none", ret |-> ret]

Raise(st, err) == [st |-> st, err |-> err, ret |-> NoneV]

(* Graph.create_node: appends a node under the unique name uniq.           *)
Graph_append(st, kind, target, args, kwargs, uniq) ==
    Ok(State(Append(st.graph, [op |-> kind, target |-> target, args |-> args,
                               kwargs |-> kwargs, name |-> uniq]),
             st.used_names \cup {uniq}, st.attrs),
       NodeV(Len(st.graph) + 1))

Graph_create_node(st, kind, target, args, kwargs, name) ==
    Graph_append(st, kind, target, args, kwargs,
                 _create_unique_name(st.used_names,
                                     IF name = "" THEN _target_to_str(target) ELSE name))

(* TracerBase.create_node *)
create_node(st, kind, target, args, kwargs, name) ==
    Graph_create_node(st, kind, target, args, kwargs, name)

(* TracerBase.proxy *)
proxy(node) == ProxyV(node.n)

(* an exception propagates: the rest F of a body runs only after a call   *)
(* that returned                                                           *)
Bind(r, F(_)) == IF r.err # "none" THEN r ELSE F(r)

RECURSIVE create_arg(_, _)
RECURSIVE create_arg_elems(_, _)
RECURSIVE create_arg_items(_, _, _)
RECURSIVE create_proxy(_, _, _, _, _, _)
RECURSIVE Attribute_node(_, _)

(* Attribute.node without line 229's assignment to _node: every access    *)
(* records a getattr node and none is remembered                           *)
Attribute_node_forgetful(st, a) ==
    IF a.k = "Proxy" THEN Ok(st, NodeV(a.n))
    ELSE Bind(create_proxy(st, "call_function", "getattr",
                           TupleV(<<st.attrs[a.n].root, StrV(st.attrs[a.n].attr)>>),
                           EmptyDict, ""),
              LAMBDA r : Ok(r.st, NodeV(r.ret.n)))

(* Proxy.node / Attribute.node: the backing node of a proxy object.        *)
Attribute_node(st, a) ==
    IF a.k = "Proxy" THEN Ok(st, NodeV(a.n))
    ELSE IF st.attrs[a.n]._node # 0 THEN Ok(st, NodeV(st.attrs[a.n]._node))
    ELSE Bind(create_proxy(st, "call_function", "getattr",
                           TupleV(<<st.attrs[a.n].root, StrV(st.attrs[a.n].attr)>>),
                           EmptyDict, ""),
              LAMBDA r : Ok(State(r.st.graph, r.st.used_names,
                                  [r.st.attrs EXCEPT ![a.n]._node = r.ret.n]),
                            NodeV(r.ret.n)))

(* the generator of create_arg's sequence branch, left to right *)
create_arg_elems(st, s) ==
    IF s = <<>> THEN Ok(st, <<>>)
    ELSE Bind(create_arg(st, Head(s)),
              LAMBDA h : Bind(create_arg_elems(h.st, Tail(s)),
                              LAMBDA t : Ok(t.st, <<h.ret>> \o t.ret)))

(* the loop of create_arg's dict branch without the test of the key *)
create_arg_items_any_key(st, keys, s) ==
    IF keys = <<>> THEN Ok(st, <<>>)
    ELSE Bind(create_arg(st, Head(s)),
              LAMBDA h : Bind(create_arg_items(h.st, Tail(keys), Tail(s)),
                              LAMBDA t : Ok(t.st, <<h.ret>> \o t.ret)))

(* the loop of create_arg's dict branch, in insertion order *)
create_arg_items(st, keys, s) ==
    IF keys = <<>> THEN Ok(st, <<>>)
    ELSE IF Head(keys).type # "str" THEN Raise(st, "NotImplementedError")
    ELSE Bind(create_arg(st, Head(s)),
              LAMBDA h : Bind(create_arg_items(h.st, Tail(keys), Tail(s)),
                              LAMBDA t : Ok(t.st, <<h.ret>> \o t.ret)))

(* create_arg building a list for every sequence, tuple or list *)
create_arg_as_list(st, a) ==
    IF a.k \in {"tuple", "list"}
    THEN Bind(create_arg_elems(st, a.s), LAMBDA r : Ok(r.st, ListV(r.ret)))
    ELSE IF a.k = "dict"
    THEN Bind(create_arg_items(st, a.keys, a.s), LAMBDA r : Ok(r.st, DictV(a.keys, r.ret)))
    ELSE IF a.k = "slice"
    THEN Bind(create_arg_elems(st, a.s),
              LAMBDA r : Ok(r.st, SliceV(r.ret[1], r.ret[2], r.ret[3])))
    ELSE IF isProxy(a) THEN Attribute_node(st, a)
    ELSE IF a.k \in base_types \/ a.k = "None" THEN Ok(st, a)
    ELSE Raise(st, "NotImplementedError")

(* TracerBase.create_arg *)
create_arg(st, a) ==
    IF a.k \in {"tuple", "list"}
    THEN Bind(create_arg_elems(st, a.s), LAMBDA r : Ok(r.st, Val(a.k, 0, "", r.ret, <<>>)))
    ELSE IF a.k = "dict"
    THEN Bind(create_arg_items(st, a.keys, a.s), LAMBDA r : Ok(r.st, DictV(a.keys, r.ret)))
    ELSE IF a.k = "slice"
    THEN Bind(create_arg_elems(st, a.s),
              LAMBDA r : Ok(r.st, SliceV(r.ret[1], r.ret[2], r.ret[3])))
    ELSE IF isProxy(a) THEN Attribute_node(st, a)
    ELSE IF a.k \in base_types \/ a.k = "None" THEN Ok(st, a)
    ELSE Raise(st, "NotImplementedError")

(* the asserts of create_proxy, then create_node and proxy *)
create_proxy_node(st, kind, target, args_, kwargs_, name) ==
    IF args_.k # "tuple" \/ kwargs_.k # "dict" THEN Raise(st, "AssertionError")
    ELSE Bind(create_node(st, kind, target, args_, kwargs_, name),
              LAMBDA n : Ok(n.st, proxy(n.ret)))

(* TracerBase.create_proxy *)
create_proxy(st, kind, target, args, kwargs, name) ==
    Bind(create_arg(st, args),
         LAMBDA args_ :
            Bind(create_arg(args_.st, kwargs),
                 LAMBDA kwargs_ :
                    create_proxy_node(kwargs_.st, kind, target,
                                      args_.ret, kwargs_.ret, name)))

(* ------------------------ _create_friendly_names ----------------------- *)

(* A frame's f_locals: a sequence of bindings [name, v] in dict order.     *)
Binding(name, v) == [name |-> name, v |-> v]

(* the loop over f_locals.items() without the length test: the first      *)
(* binding of the proxy wins                                               *)
RECURSIVE found_name_first(_, _, _)
found_name_first(f_locals, a, found) ==
    IF f_locals = <<>> THEN found
    ELSE found_name_first(Tail(f_locals), a,
                          IF a = Head(f_locals).v /\ found = ""
                          THEN Head(f_locals).name ELSE found)

(* the loop over f_locals.items(): "" stands for found_name = None *)
RECURSIVE found_name(_, _, _)
found_name(f_locals, a, found) ==
    IF f_locals = <<>> THEN found
    ELSE found_name(Tail(f_locals), a,
                    IF a = Head(f_locals).v
                       /\ (found = "" \/ Len(Head(f_locals).name) < Len(found))
                    THEN Head(f_locals).name ELSE found)

(* a.node.name = a.tracer.graph._create_unique_name(found) *)
rename(st, n, found) ==
    State([st.graph EXCEPT ![n].name = _create_unique_name(st.used_names, found)],
          st.used_names \cup {_create_unique_name(st.used_names, found)}, st.attrs)

(* the base case of _assign_friendly_name: rename the proxy's node *)
_assign_proxy_name(st, a, found) ==
    IF found = "" THEN Ok(st, NoneV)
    ELSE Bind(Attribute_node(st, a),
              LAMBDA nd : IF Name(found, 0) = nd.st.graph[nd.ret.n].name
                          THEN Ok(nd.st, NoneV)
                          ELSE Ok(rename(nd.st, nd.ret.n, found), NoneV))

RECURSIVE _assign_friendly_name(_, _, _)
RECURSIVE _assign_elems(_, _, _)
RECURSIVE _assign_items(_, _, _, _)

_assign_elems(st, s, f_locals) ==
    IF s = <<>> THEN Ok(st, NoneV)
    ELSE Bind(_assign_friendly_name(st, Head(s), f_locals),
              LAMBDA h : _assign_elems(h.st, Tail(s), f_locals))

_assign_items(st, keys, s, f_locals) ==
    IF keys = <<>> THEN Ok(st, NoneV)
    ELSE IF Head(keys).type # "str" THEN Raise(st, "NotImplementedError")
    ELSE Bind(_assign_friendly_name(st, Head(s), f_locals),
              LAMBDA h : _assign_items(h.st, Tail(keys), Tail(s), f_locals))

_assign_friendly_name(st, a, f_locals) ==
    Bind(IF a.k \in {"tuple", "list", "slice"} THEN _assign_elems(st, a.s, f_locals)
         ELSE IF a.k = "dict" THEN _assign_items(st, a.keys, a.s, f_locals)
         ELSE Ok(st, NoneV),
         LAMBDA agg : IF isProxy(a)
                      THEN _assign_proxy_name(agg.st, a, found_name(f_locals, a, ""))
                      ELSE agg)

(* f_locals is the frame frames_up above the caller of the resolver *)
_create_friendly_names(st, a, f_locals) == _assign_friendly_name(st, a, f_locals)

(* ------------------------- Proxy and Attribute ------------------------- *)

(* an eager Proxy.__getattr__: the Attribute object is built with its     *)
(* getattr node already recorded                                           *)
Proxy___getattr___eager(st, self, k) ==
    Attribute_node(State(st.graph, st.used_names,
                         Append(st.attrs, [root |-> self, attr |-> k, _node |-> 0])),
                   AttributeV(Len(st.attrs) + 1))

(* Proxy.__getattr__ / Attribute.__init__: a new Attribute object, no node *)
Proxy___getattr__(st, self, k) ==
    Ok(State(st.graph, st.used_names,
             Append(st.attrs, [root |-> self, attr |-> k, _node |-> 0])),
       AttributeV(Len(st.attrs) + 1))

(* Proxy.__call__ *)
Proxy___call__(st, self, args, kwargs, f_locals) ==
    Bind(_create_friendly_names(st, args, f_locals),
         LAMBDA f : create_proxy(f.st, "call_method", "__call__",
                                 TupleV(<<self>> \o args.s), kwargs, ""))

(* Attribute.__call__ without the collapse: the callee itself, not its     *)
(* root, is the first argument of the call_method node                     *)
Attribute___call___uncollapsed(st, self, args, kwargs, f_locals) ==
    Bind(_create_friendly_names(st, args, f_locals),
         LAMBDA f : create_proxy(f.st, "call_method", st.attrs[self.n].attr,
                                 TupleV(<<self>> \o args.s), kwargs, ""))

(* Attribute.__call__ *)
Attribute___call__(st, self, args, kwargs, f_locals) ==
    Bind(_create_friendly_names(st, args, f_locals),
         LAMBDA f : create_proxy(f.st, "call_method", st.attrs[self.n].attr,
                                 TupleV(<<st.attrs[self.n].root>> \o args.s), kwargs, ""))

(* the catalogs of torch/fx/graph.py *)
magic_methods == {"sub", "getitem"}

reflectable_magic_methods == {"sub"}

(* scope(method).impl: the forward entry __<method>__ *)
impl(st, method, args, kwargs, f_locals) ==
    Bind(_create_friendly_names(st, args, f_locals),
         LAMBDA f :
            Bind(_create_friendly_names(f.st, kwargs, f_locals),
                 LAMBDA g : create_proxy(g.st, "call_function", method, args, kwargs, "")))

(* a reflected entry that records its operands as it receives them *)
_define_reflectable_unswapped(st, orig_method_name, self, rhs) ==
    create_proxy(st, "call_function", orig_method_name, TupleV(<<self, rhs>>), EmptyDict, "")

(* _define_reflectable(orig_method_name).impl: the entry __r<method>__ *)
_define_reflectable(st, orig_method_name, self, rhs) ==
    create_proxy(st, "call_function", orig_method_name, TupleV(<<rhs, self>>), EmptyDict, "")

(* a to_bool that never raises, whatever the tracer class *)
to_bool_permissive(st, tr, obj, override) == Ok(st, override)

(* TracerBase.to_bool, and the override of a tracer subclass *)
to_bool(st, tr, obj, override) ==
    IF tr = "TracerBase" THEN Raise(st, "TraceError") ELSE Ok(st, override)

(* TracerBase.iter, and the override of a tracer subclass *)
iter(st, tr, obj, override) ==
    IF tr = "TracerBase" THEN Raise(st, "TraceError") ELSE Ok(st, override)

(* TracerBase.keys: Attribute(obj, 'keys')(), whose caller's frame binds   *)
(* self and obj                                                            *)
keys(st, obj) ==
    create_proxy(st, "call_method", "keys", TupleV(<<obj>>), EmptyDict, "")

(* Proxy.__bool__ *)
Proxy___bool__(st, tr, self, override) == to_bool(st, tr, self, override)

(* the generator (self[i] for i in range(argval)), consumed by the unpack: *)
(* each self[i] is __getitem__ called from the generator's frame, whose    *)
(* locals are .0, i and the free variable self                             *)
RECURSIVE unpack(_, _, _, _)
unpack(st, self, i, argval) ==
    IF i = argval THEN Ok(st, <<>>)
    ELSE Bind(impl(st, "getitem", TupleV(<<self, IntV(i)>>), EmptyDict,
                   <<Binding(".0", ObjectV), Binding("i", IntV(i)), Binding("self", self)>>),
              LAMBDA h : Bind(unpack(h.st, self, i + 1, argval),
                              LAMBDA t : Ok(t.st, <<h.ret>> \o t.ret)))

(* Proxy.__iter__: inst is the instruction of the calling frame *)
Proxy___iter__(st, tr, self, inst, override) ==
    IF inst.opname = "UNPACK_SEQUENCE"
    THEN Bind(unpack(st, self, 0, inst.argval), LAMBDA r : Ok(r.st, TupleV(r.ret)))
    ELSE iter(st, tr, self, override)

(* ------------------------------ inputs -------------------------------- *)

TracerClasses == {"TracerBase", "Tracer subclass"}

Insts == {[opname |-> "UNPACK_SEQUENCE", argval |-> n] : n \in 1..MaxUnpack}
         \cup {[opname |-> "GET_ITER", argval |-> 0]}

BoolV(b) == Val("bool", IF b THEN 1 ELSE 0, "", <<>>, <<>>)

IteratorV == Val("iterator", 0, "", <<>>, <<>>)

PlainProxies == {ProxyV(i) : i \in 1..Len(graph)}

Attributes == {AttributeV(j) : j \in 1..Len(attrs)}

Proxies == PlainProxies \cup Attributes

ProxiesIn(s) == {s[i] : i \in {j \in 1..Len(s) : isProxy(s[j])}}

(* the f_locals of a calling frame that binds up to maxb of the names to   *)
(* the proxies ps, in either dict order                                    *)
FLocals(names, maxb, ps) ==
    {<<>>}
    \cup {<<Binding(n, p)>> : n \in IF maxb >= 1 THEN names ELSE {}, p \in ps}
    \cup {<<Binding(b[1], p), Binding(b[2], q)>> :
            b \in {c \in names \X names : maxb >= 2 /\ c[1] # c[2]}, p \in ps, q \in ps}

(* What a specification draws its inputs from: the bounds on the graph, on *)
(* the Attribute objects and on the numeric suffix of a name, the (kind,   *)
(* target) pairs of direct create_proxy calls, the attribute names, the    *)
(* literal operands, the number of positional arguments of a call, the     *)
(* local names of calling frames and how many of them a frame binds.       *)
Inputs(nodes, nattrs, targets, attr_names, literals, arity, local_names, bindings) ==
    [nodes |-> nodes, attrs |-> nattrs, suffix |-> MaxSuffix, targets |-> targets,
     attr_names |-> attr_names, literals |-> literals, arity |-> arity,
     local_names |-> local_names, bindings |-> bindings]

Operands(in) == Proxies \cup in.literals

ArgTuples(in) ==
    {TupleV(<<>>)} \cup {TupleV(<<y>>) : y \in IF in.arity >= 1 THEN Operands(in) ELSE {}}

(* ------------------------------ actions ------------------------------- *)

Here == State(graph, used_names, attrs)

NamesOf(g) == [i \in 1..Len(g) |-> g[i].name]

Started ==
    /\ graph = <<>>
    /\ used_names = {}
    /\ attrs = <<>>
    /\ last = [op |-> "init", self |-> NoneV, args |-> NoneV, kwargs |-> NoneV,
               f_locals |-> <<>>, target |-> "", n0 |-> 0, names0 |-> <<>>,
               used0 |-> {}, err |-> "none", ret |-> NoneV]

Init == Started /\ structure = NoneV

(* the state after a call that returned or raised r *)
Commit(in, op, self, args, kwargs, f_locals, target, r) ==
    /\ Len(r.st.graph) <= in.nodes
    /\ Len(r.st.attrs) <= in.attrs
    /\ \A nm \in r.st.used_names : nm.n <= in.suffix
    /\ graph' = r.st.graph
    /\ used_names' = r.st.used_names
    /\ attrs' = r.st.attrs
    /\ structure' = structure
    /\ last' = [op |-> op, self |-> self, args |-> args, kwargs |-> kwargs,
                f_locals |-> f_locals, target |-> target, n0 |-> Len(graph),
                names0 |-> NamesOf(graph), used0 |-> used_names,
                err |-> r.err, ret |-> r.ret]

CreateProxy(in) ==
    /\ Len(graph) < in.nodes
    /\ \E t \in in.targets, args \in ArgTuples(in) :
        Commit(in, "create_proxy", NoneV, args, EmptyDict, <<>>, t[2],
               create_proxy(Here, t[1], t[2], args, EmptyDict, ""))

GetAttr(in) ==
    /\ Len(attrs) < in.attrs
    /\ \E self \in Proxies, k \in in.attr_names :
        Commit(in, "__getattr__", self, NoneV, NoneV, <<>>, k,
               Proxy___getattr__(Here, self, k))

NodeAccess(in) ==
    \E self \in Attributes :
        Commit(in, "node", self, NoneV, NoneV, <<>>, "", Attribute_node(Here, self))

CallProxy(in) ==
    /\ Len(graph) < in.nodes
    /\ \E self \in PlainProxies, args \in ArgTuples(in) :
        \E f_locals \in FLocals(in.local_names, in.bindings, ProxiesIn(args.s)) :
            Commit(in, "Proxy.__call__", self, args, EmptyDict, f_locals, "__call__",
                   Proxy___call__(Here, self, args, EmptyDict, f_locals))

CallAttribute(in) ==
    /\ Len(graph) < in.nodes
    /\ \E self \in Attributes, args \in ArgTuples(in) :
        \E f_locals \in FLocals(in.local_names, in.bindings, ProxiesIn(args.s)) :
            Commit(in, "Attribute.__call__", self, args, EmptyDict, f_locals,
                   attrs[self.n].attr,
                   Attribute___call__(Here, self, args, EmptyDict, f_locals))

MagicMethod(in) ==
    /\ Len(graph) < in.nodes
    /\ \E method \in magic_methods, self \in Proxies, rhs \in Operands(in) :
        \E f_locals \in FLocals(in.local_names, in.bindings, ProxiesIn(<<self, rhs>>)) :
            Commit(in, "magic", self, TupleV(<<self, rhs>>), EmptyDict, f_locals, method,
                   impl(Here, method, TupleV(<<self, rhs>>), EmptyDict, f_locals))

ReflectedMethod(in) ==
    /\ Len(graph) < in.nodes
    /\ \E method \in reflectable_magic_methods, self \in Proxies, rhs \in Operands(in) :
        Commit(in, "reflected", self, TupleV(<<rhs>>), EmptyDict, <<>>, method,
               _define_reflectable(Here, method, self, rhs))

Bool(in) ==
    \E self \in Proxies, tr \in TracerClasses :
        Commit(in, "__bool__", self, NoneV, NoneV, <<>>, tr,
               Proxy___bool__(Here, tr, self, BoolV(TRUE)))

Iter(in) ==
    \E self \in Proxies, tr \in TracerClasses, inst \in Insts :
        Commit(in, "__iter__", self, IntV(inst.argval), StrV(inst.opname), <<>>, tr,
               Proxy___iter__(Here, tr, self, inst, IteratorV))

Keys(in) ==
    /\ Len(graph) < in.nodes
    /\ \E self \in Proxies :
        Commit(in, "keys", self, NoneV, NoneV, <<>>, "keys", keys(Here, self))

(* ---- attribute access and attribute calls ------------------------------ *)

Recording == Inputs(MaxNodes, MaxAttrs, {<<"placeholder", "x">>}, {"foo"}, {}, 1, {"x"}, 1)

Next ==
    \/ CreateProxy(Recording)
    \/ GetAttr(Recording)
    \/ NodeAccess(Recording)
    \/ CallAttribute(Recording)

Spec == Init /\ [][Next]_vars

(* ---- boolean conversion, iteration and keys ---------------------------- *)

Control == Inputs(MaxControlNodes, MaxControlAttrs, {<<"placeholder", "x">>}, {"foo"}, {}, 1, {}, 0)

NextControl ==
    \/ CreateProxy(Control)
    \/ GetAttr(Control)
    \/ Bool(Control)
    \/ Iter(Control)
    \/ Keys(Control)

SpecControl == Init /\ [][NextControl]_vars

(* ---- the operator entries ---------------------------------------------- *)

Parameters == Inputs(MaxOperatorNodes, MaxOperatorAttrs, {<<"placeholder", "x">>}, {"foo"}, {}, 0, {}, 0)

Operators ==
    Inputs(MaxOperatorNodes, MaxOperatorAttrs, {<<"placeholder", "x">>}, {"foo"}, {IntV(1)}, 1, {}, 0)

NextOperators ==
    \/ CreateProxy(Parameters)
    \/ GetAttr(Operators)
    \/ MagicMethod(Operators)
    \/ ReflectedMethod(Operators)

SpecOperators == Init /\ [][NextOperators]_vars

(* ---- calling frames that bind two names -------------------------------- *)

Aliases ==
    Inputs(MaxAliasNodes, MaxAliasAttrs, {<<"placeholder", "x">>, <<"placeholder", "y">>}, {"foo"},
           {}, 1, {"x", "id"}, 2)

NextAliases ==
    \/ CreateProxy(Aliases)
    \/ GetAttr(Aliases)
    \/ MagicMethod(Aliases)
    \/ CallProxy(Aliases)

SpecAliases == Init /\ [][NextAliases]_vars

(* ---- friendly names over a longer trace -------------------------------- *)

Names == Inputs(MaxNameNodes, MaxNameAttrs, {<<"placeholder", "x">>}, {"a", "b"}, {}, 0, {"x"}, 1)

NextNames ==
    \/ CreateProxy(Names)
    \/ GetAttr(Names)
    \/ MagicMethod(Names)

SpecNames == Init /\ [][NextNames]_vars

(* ---- lowering nested structures ---------------------------------------- *)

(* the leaves of the structures: two proxies, a literal, None and a value  *)
(* of a type outside base_types                                            *)
Leaves == {ProxyV(1), AttributeV(1), IntV(3), NoneV, ObjectV}

Singles(S) ==
    {TupleV(<<a>>) : a \in S} \cup {ListV(<<a>>) : a \in S}
    \cup {DictV(<<StrKey("a")>>, <<a>>) : a \in S}
    \cup {DictV(<<IntKey("1")>>, <<a>>) : a \in S}
    \cup {SliceV(a, NoneV, NoneV) : a \in S}

Pairs(S, T) ==
    {TupleV(<<a, b>>) : a \in S, b \in T} \cup {ListV(<<b, a>>) : a \in S, b \in T}
    \cup {DictV(<<StrKey("a"), StrKey("b")>>, <<a, b>>) : a \in S, b \in T}
    \cup {SliceV(NoneV, a, b) : a \in S, b \in T}

Structures ==
    Leaves \cup {TupleV(<<>>), EmptyDict} \cup Singles(Leaves) \cup Pairs(Leaves, Leaves)
    \cup Singles(Singles(Leaves))
    \cup {TupleV(<<a, b>>) : a \in Leaves, b \in Singles(Leaves)}
    \cup {ListV(<<b, a>>) : a \in Leaves, b \in Singles(Leaves)}

RECURSIVE ProxiesOf(_)
ProxiesOf(a) ==
    IF isProxy(a) THEN {a} ELSE UNION {ProxiesOf(a.s[i]) : i \in 1..Len(a.s)}

InitLower == Started /\ structure \in Structures

Lowering == Inputs(MaxLowerNodes, MaxLowerAttrs, {<<"placeholder", "x">>}, {"foo"}, {}, 0, {}, 0)

(* tracer.create_arg(structure) *)
Lower(in) ==
    /\ ProxiesOf(structure) \subseteq Proxies
    /\ Commit(in, "create_arg", NoneV, structure, NoneV, <<>>, "",
              create_arg(Here, structure))

(* tracer.create_proxy with the structure among args or kwargs *)
Record(in) ==
    /\ ProxiesOf(structure) \subseteq Proxies
    /\ \E c \in {<<TupleV(<<structure>>), EmptyDict>>,
                 <<TupleV(<<>>), DictV(<<StrKey("k")>>, <<structure>>)>>,
                 <<TupleV(<<>>), IF structure.k = "dict" THEN structure ELSE EmptyDict>>} :
        Commit(in, "create_proxy", NoneV, c[1], c[2], <<>>, "relu",
               create_proxy(Here, "call_function", "relu", c[1], c[2], ""))

NextLower ==
    \/ CreateProxy(Lowering)
    \/ GetAttr(Lowering)
    \/ Lower(Lowering)
    \/ Record(Lowering)

SpecLower == InitLower /\ [][NextLower]_vars

(* ------------------- what the last call did to the graph --------------- *)

(* the Attribute objects that got their backing node during the last call *)
Materialized == {j \in 1..Len(attrs) : attrs[j]._node > last.n0}

(* the Attribute object had its backing node before the last call *)
HadNode(j) == attrs[j]._node \in 1..last.n0

(* the Attribute objects without a backing node before the last call that  *)
(* lowering a reaches: those in a, and the roots of those                  *)
RECURSIVE Unbacked(_)
Unbacked(a) ==
    IF a.k = "Attribute"
    THEN IF HadNode(a.n) THEN {} ELSE {a.n} \cup Unbacked(attrs[a.n].root)
    ELSE UNION {Unbacked(a.s[i]) : i \in 1..Len(a.s)}

(* the index of the backing node of a proxy object, 0 if it has none *)
Backing(a) == IF a.k = "Proxy" THEN a.n ELSE attrs[a.n]._node

(* r has the shape of a, with the backing node for every proxy *)
RECURSIVE SameShape(_, _)
SameShape(a, r) ==
    IF a.k \in {"tuple", "list", "dict", "slice"}
    THEN /\ r.k = a.k
         /\ r.keys = a.keys
         /\ Len(r.s) = Len(a.s)
         /\ \A i \in 1..Len(a.s) : SameShape(a.s[i], r.s[i])
    ELSE IF isProxy(a) THEN Backing(a) # 0 /\ r = NodeV(Backing(a))
    ELSE r = a

(* a is built from tuples, lists, string-keyed dicts and slices over       *)
(* proxies, base-type values and None                                      *)
RECURSIVE Supported(_)
Supported(a) ==
    IF a.k \in {"tuple", "list", "dict", "slice"}
    THEN /\ \A i \in 1..Len(a.keys) : a.keys[i].type = "str"
         /\ \A i \in 1..Len(a.s) : Supported(a.s[i])
    ELSE isProxy(a) \/ a.k \in base_types \/ a.k = "None"

(* the nodes the last call appended before its last one are getattr nodes *)
OnlyGetattrBefore(n) ==
    \A i \in (last.n0 + 1)..(n - 1) :
        graph[i].op = "call_function" /\ graph[i].target = "getattr"

(* the last node of the graph is the node of the operation *)
LastNodeIs(kind, target, args) ==
    /\ Len(graph) > last.n0
    /\ graph[Len(graph)].op = kind
    /\ graph[Len(graph)].target = target
    /\ graph[Len(graph)].args.k = "tuple"
    /\ Len(graph[Len(graph)].args.s) = Len(args)
    /\ \A i \in 1..Len(args) : SameShape(args[i], graph[Len(graph)].args.s[i])

(* ------------------------------ claims -------------------------------- *)

(* C2, as amended: x.foo(y) appends a call_method node with target "foo"   *)
(* and args (x_node, y_node) as the last node of the graph.  The only      *)
(* other nodes the call appends are the getattr nodes of the Attribute     *)
(* values lowering x and the arguments reaches that had no backing node    *)
(* yet, so exactly one node is appended when there is none.  x.foo itself  *)
(* gets a backing node only if it is reached that way.                     *)
C2_CallCollapses ==
    (last.op = "Attribute.__call__" /\ last.err = "none") =>
        /\ LastNodeIs("call_method", attrs[last.self.n].attr,
                      <<attrs[last.self.n].root>> \o last.args.s)
        /\ graph[Len(graph)].kwargs = EmptyDict
        /\ last.ret = ProxyV(Len(graph))
        /\ Materialized = Unbacked(attrs[last.self.n].root) \cup Unbacked(last.args)
        /\ Len(graph) = last.n0 + Cardinality(Materialized) + 1
        /\ OnlyGetattrBefore(Len(graph))

(* x.foo(y) with y an Attribute value that had no backing node: two nodes *)
C2_Witness ==
    /\ last.op = "Attribute.__call__"
    /\ last.err = "none"
    /\ Len(last.args.s) = 1
    /\ last.args.s[1].k = "Attribute"
    /\ last.args.s[1].n \in Materialized
    /\ last.self.n \notin Materialized

(* C2 as stated: x.foo(y) adds exactly one node, whatever x and y are *)
C2_ExactlyOneNode ==
    (last.op = "Attribute.__call__" /\ last.err = "none") =>
        /\ Len(graph) = last.n0 + 1
        /\ graph[Len(graph)].op = "call_method"
        /\ graph[Len(graph)].target = attrs[last.self.n].attr

(* C3, as amended: constructing x.foo adds no node; the first access to    *)
(* its node property appends a call_function node with target getattr and  *)
(* args (root_node, attribute_name) as the last node, preceded by one      *)
(* getattr node for each Attribute value of its root chain that had no     *)
(* backing node yet (so exactly one node when the root has its node); a    *)
(* later access returns the same node and adds nothing, and a backing node *)
(* that is set never changes.                                              *)
C3_Constructed ==
    last.op = "__getattr__" =>
        /\ Len(graph) = last.n0
        /\ NamesOf(graph) = last.names0
        /\ Materialized = {}
        /\ last.ret = AttributeV(Len(attrs))
        /\ attrs[Len(attrs)] = [root |-> last.self, attr |-> last.target, _node |-> 0]

C3_Accessed ==
    (last.op = "node" /\ last.err = "none") =>
        /\ attrs[last.self.n]._node # 0
        /\ last.ret = NodeV(attrs[last.self.n]._node)
        /\ Materialized = Unbacked(last.self)
        /\ Len(graph) = last.n0 + Cardinality(Materialized)
        /\ last.self.n \in Materialized =>
            /\ attrs[last.self.n]._node = Len(graph)
            /\ LastNodeIs("call_function", "getattr",
                          <<attrs[last.self.n].root, StrV(attrs[last.self.n].attr)>>)
            /\ OnlyGetattrBefore(Len(graph))

C3_Memoized ==
    \A j \in 1..Len(attrs) : attrs[j]._node # 0 => attrs'[j]._node = attrs[j]._node

C3_LazyOnce == [](C3_Constructed /\ C3_Accessed) /\ [][C3_Memoized]_vars

(* the first access to the node of x.foo.foo, whose root x.foo had no node *)
C3_Witness ==
    /\ last.op = "node"
    /\ last.self.n \in Materialized
    /\ Cardinality(Materialized) = 2

(* C3 as stated: the first access adds exactly one node *)
C3_FirstAccessAddsOne ==
    (last.op = "node" /\ last.self.n \in Materialized) => Len(graph) = last.n0 + 1

(* C4, as amended: a successful create_proxy appends the node of the       *)
(* requested operation as the last node of the graph, preceded by one      *)
(* getattr node for each Attribute value that lowering args and kwargs     *)
(* reaches and that had no backing node yet; it appends exactly one node   *)
(* when there is none.                                                     *)
C4_AppendsRequestedNode ==
    (last.op = "create_proxy" /\ last.err = "none") =>
        /\ LastNodeIs(graph[Len(graph)].op, last.target, last.args.s)
        /\ SameShape(last.kwargs, graph[Len(graph)].kwargs)
        /\ last.ret = ProxyV(Len(graph))
        /\ Materialized = Unbacked(last.args) \cup Unbacked(last.kwargs)
        /\ Len(graph) = last.n0 + Cardinality(Materialized) + 1
        /\ OnlyGetattrBefore(Len(graph))

(* create_proxy with an Attribute value of no backing node among its args *)
C4_Witness ==
    /\ last.op = "create_proxy"
    /\ last.err = "none"
    /\ Materialized # {}
    /\ Len(graph) = last.n0 + Cardinality(Materialized) + 1

(* C4 as stated: every successful create_proxy appends exactly one node *)
C4_AppendsOneNode ==
    (last.op = "create_proxy" /\ last.err = "none") => Len(graph) = last.n0 + 1

(* C7: with the base tracer, converting a proxy to a boolean, or iterating *)
(* it where the calling instruction is not UNPACK_SEQUENCE, raises         *)
(* TraceError, adds no node and gives no Attribute a backing node; with a  *)
(* tracer that overrides to_bool or iter the operation returns the         *)
(* override's result.                                                      *)
C7_ControlFlow ==
    /\ (last.op = "__bool__" /\ last.target = "TracerBase") =>
            /\ last.err = "TraceError"
            /\ Len(graph) = last.n0
            /\ NamesOf(graph) = last.names0
            /\ Materialized = {}
    /\ (last.op = "__iter__" /\ last.kwargs.str # "UNPACK_SEQUENCE"
            /\ last.target = "TracerBase") =>
            /\ last.err = "TraceError"
            /\ Len(graph) = last.n0
            /\ NamesOf(graph) = last.names0
            /\ Materialized = {}
    /\ (last.op = "__bool__" /\ last.target # "TracerBase") =>
            last.err = "none" /\ last.ret = BoolV(TRUE)
    /\ (last.op = "__iter__" /\ last.kwargs.str # "UNPACK_SEQUENCE"
            /\ last.target # "TracerBase") =>
            last.err = "none" /\ last.ret = IteratorV

(* iterating the proxy of an Attribute value without a backing node, in a  *)
(* for loop, under the base tracer                                         *)
C7_Witness ==
    /\ last.op = "__iter__"
    /\ last.kwargs.str # "UNPACK_SEQUENCE"
    /\ last.target = "TracerBase"
    /\ last.err = "TraceError"
    /\ last.self.k = "Attribute"
    /\ attrs[last.self.n]._node = 0
    /\ Len(graph) > 0

(* C9: an operator entry records one call_function node whose target is   *)
(* the operator and whose args are the operands in surface order: the      *)
(* forward entry p.__op__(v) records (p_node, v), the reflected entry      *)
(* p.__rop__(v) records (v, p_node) under the non-reflected operator.  It  *)
(* is the last node appended, and the nodes appended before it are the     *)
(* getattr nodes of operands that had no backing node.                     *)
C9_SurfaceOrder ==
    /\ (last.op = "magic" /\ last.err = "none") =>
            /\ LastNodeIs("call_function", last.target, <<last.self, last.args.s[2]>>)
            /\ last.args.s[1] = last.self
            /\ graph[Len(graph)].kwargs = EmptyDict
            /\ last.ret = ProxyV(Len(graph))
            /\ OnlyGetattrBefore(Len(graph))
    /\ (last.op = "reflected" /\ last.err = "none") =>
            /\ LastNodeIs("call_function", last.target, <<last.args.s[1], last.self>>)
            /\ last.target \in reflectable_magic_methods
            /\ graph[Len(graph)].kwargs = EmptyDict
            /\ last.ret = ProxyV(Len(graph))
            /\ OnlyGetattrBefore(Len(graph))

(* 1 - p through p.__rsub__(1): the node records (1, p_node) *)
C9_Witness ==
    /\ last.op = "reflected"
    /\ last.err = "none"
    /\ last.args.s[1] = IntV(1)
    /\ graph[Len(graph)].target = "sub"
    /\ graph[Len(graph)].args = TupleV(<<IntV(1), NodeV(Backing(last.self))>>)

(* the names a frame binds to the proxy object a *)
BoundNames(a) ==
    {last.f_locals[i].name : i \in {j \in 1..Len(last.f_locals) : last.f_locals[j].v = a}}

(* the shortest of a non-empty set of names of distinct lengths *)
Shortest(S) == CHOOSE n \in S : \A m \in S : Len(n) <= Len(m)

(* the operands of the last call whose backing node is node i *)
OperandsOf(i) == {a \in ProxiesIn(last.args.s) : Backing(a) = i}

(* the name node i had when the resolver reached it: the one it had before *)
(* the call, or, for a node the call created, a name built on its target,  *)
(* which no local name of the frames considered equals                     *)
NameBefore(i) == IF i <= last.n0 THEN last.names0[i] ELSE Name(graph[i].target, 0)

(* the operands on node i that the calling frame binds to a name: one     *)
(* object, unless the frame holds both an Attribute object and a Proxy    *)
(* object made from its node                                               *)
BoundOperands(i) == {a \in OperandsOf(i) : BoundNames(a) # {}}

(* C10: when several local names are bound to the same proxy object, the   *)
(* resolver's candidate is the shortest of them; the node of the proxy is  *)
(* renamed, to a fresh name built on the candidate, only when the          *)
(* candidate differs from the node's current name, and the nodes of no     *)
(* bound operand keep their names.                                         *)
C10_ShortestName ==
    (last.op \in {"magic", "Proxy.__call__"} /\ last.err = "none") =>
        \A i \in 1..(Len(graph) - 1) :
            /\ (BoundOperands(i) = {} /\ i <= last.n0) => graph[i].name = last.names0[i]
            /\ \A a \in BoundOperands(i) :
                \/ graph[i].name = NameBefore(i)
                \/ \E b \in BoundOperands(i) :
                        graph[i].name.base = Shortest(BoundNames(b))
            /\ \A a \in BoundOperands(i) :
                BoundOperands(i) = {a} =>
                    IF Name(Shortest(BoundNames(a)), 0) = NameBefore(i)
                    THEN graph[i].name = NameBefore(i)
                    ELSE /\ graph[i].name.base = Shortest(BoundNames(a))
                         /\ i <= last.n0 =>
                                \A k \in 1..last.n0 : graph[i].name # last.names0[k]

(* a frame binds id and x, in that order, to one operand: its node is      *)
(* renamed to x                                                            *)
C10_Witness ==
    /\ last.op = "magic"
    /\ last.err = "none"
    /\ Len(last.f_locals) = 2
    /\ last.f_locals[1].name = "id"
    /\ last.f_locals[2].name = "x"
    /\ last.f_locals[1].v = last.f_locals[2].v
    /\ Backing(last.f_locals[1].v) <= last.n0
    /\ last.names0[Backing(last.f_locals[1].v)].base # "x"
    /\ graph[Backing(last.f_locals[1].v)].name.base = "x"

(* C1: for a structure built from tuples, lists, string-keyed dicts and    *)
(* slices over proxies, base-type values and None, create_arg returns a    *)
(* structure of the same shape and the same sequence kind at every level,  *)
(* with the backing node in place of every proxy and every other leaf      *)
(* unchanged.                                                              *)
C1_PreservesShape ==
    (last.op = "create_arg" /\ Supported(last.args)) =>
        /\ last.err = "none"
        /\ SameShape(last.args, last.ret)

(* lowering a tuple that holds a base-type value and a one-element list,   *)
(* dict or slice of an Attribute value that had no backing node            *)
C1_Witness ==
    /\ last.op = "create_arg"
    /\ last.err = "none"
    /\ last.args.k = "tuple"
    /\ Len(last.args.s) = 2
    /\ last.args.s[1] = IntV(3)
    /\ last.args.s[2].k \in {"list", "dict", "slice"}
    /\ last.args.s[2].s[1].k = "Attribute"
    /\ Materialized # {}
    /\ last.ret.s[2].s[1] = NodeV(Len(graph))

(* C8: lowering a structure that holds, at any depth, a dict with a        *)
(* non-string key or a leaf that is neither a proxy, None nor a base-type  *)
(* value raises NotImplementedError; create_proxy with such args or kwargs *)
(* raises it without calling create_node, so the nodes it leaves behind    *)
(* are at most getattr nodes of Attribute values lowered before the raise, *)
(* never the node of the requested operation.                              *)
C8_Unsupported ==
    /\ (last.op = "create_arg" /\ ~Supported(last.args)) =>
            /\ last.err = "NotImplementedError"
            /\ OnlyGetattrBefore(Len(graph) + 1)
    /\ (last.op = "create_proxy" /\ (~Supported(last.args) \/ ~Supported(last.kwargs))) =>
            /\ last.err = "NotImplementedError"
            /\ \A i \in (last.n0 + 1)..Len(graph) : graph[i].target # last.target
            /\ OnlyGetattrBefore(Len(graph) + 1)
            /\ Len(graph) = last.n0 + Cardinality(Materialized)

(* create_proxy raised on an unsupported leaf after the Attribute value    *)
(* before it had been given its getattr node                               *)
C8_Witness ==
    /\ last.op = "create_proxy"
    /\ last.err = "NotImplementedError"
    /\ Len(graph) = last.n0 + 1
    /\ graph[Len(graph)].target = "getattr"

(* the expression an argument stands for in graph g: a node is its kind,   *)
(* target, args and kwargs, with the nodes among them expanded in turn, so *)
(* that neither names nor positions take part in a comparison              *)
RECURSIVE Expr(_, _)
Expr(g, v) ==
    IF v.k = "Node"
    THEN [k |-> "Node", op |-> g[v.n].op, target |-> g[v.n].target,
          args |-> Expr(g, g[v.n].args), kwargs |-> Expr(g, g[v.n].kwargs)]
    ELSE IF v.k \in {"tuple", "list", "dict", "slice"}
    THEN [k |-> v.k, keys |-> v.keys, s |-> [i \in 1..Len(v.s) |-> Expr(g, v.s[i])]]
    ELSE [k |-> v.k, n |-> v.n, str |-> v.str]

(* the nodes of a graph, in order *)
Structure(g) == [i \in 1..Len(g) |-> Expr(g, NodeV(i))]

(* the graph, the names and the Attribute objects as they were before the  *)
(* last call                                                               *)
Before ==
    State([i \in 1..last.n0 |-> [graph[i] EXCEPT !.name = last.names0[i]]],
          last.used0,
          [j \in 1..Len(attrs) |->
              IF attrs[j]._node > last.n0 THEN [attrs[j] EXCEPT !._node = 0] ELSE attrs[j]])

(* C5: the resolver changes nothing but names: the graph an operator entry *)
(* records has the same nodes, in the same order, with the same kind,      *)
(* target, args and kwargs as the graph the same create_proxy call records *)
(* from the same state without the resolver run first.                     *)
C5_OnlyNames ==
    (last.op = "magic" /\ last.err = "none") =>
        Structure(graph) =
            Structure(create_proxy(Before, "call_function", last.target,
                                   last.args, last.kwargs, "").st.graph)

(* C6: node names are pairwise distinct, and a node whose name is built on *)
(* a local name keeps that name when its proxy is used as an operand       *)
(* under that local name again.                                            *)
C6_UniqueStable ==
    /\ \A i, j \in 1..Len(graph) : i # j => graph[i].name # graph[j].name
    /\ \A i \in 1..last.n0 :
            graph[i].name.base = last.names0[i].base => graph[i].name = last.names0[i]

====
